---- MODULE Spec2Model ----
(***************************************************************************)
(* Model of the recursive Fock-amplitude engine of MrMustard and of the    *)
(* Fock-space operations built on the tensor it produces.                  *)
(*                                                                         *)
(* Numbers.  Amplitudes are complex; a complex number is modelled exactly  *)
(* as a Gaussian integer <<re, im>>.  The recursion divides by sqrt(n_k)   *)
(* and multiplies by sqrt(m_j); the tensor cell for the multi-index n      *)
(* holds the exact value  H[n] = G[n] * sqrt(n_1! * ... * n_R!),  for      *)
(* which the same recursion reads                                          *)
(*     H[n] = B[k]*H[m] + SUM_j A[k][j] * m_j * H[m - e_j],  m = n - e_k.  *)
(* G[n] = C, G[n] = 0 and G[n] = G'[n] are equivalent to the same          *)
(* statements about H, because the scale factor depends on n only.         *)
(***************************************************************************)
EXTENDS Integers, Sequences, FiniteSets, TLC

VARIABLES
    entry,      \* which entry point is called: "tf" (_recursive_state) or "np" (hermite_renormalized)
    A, B, C,    \* the generating-function triple passed in
    cutoffs,    \* the cutoffs / shape argument passed in
    pc,         \* position of the call: "start", "fill_entry", "filling", "done", "graded", "raised"
    err,        \* the exception raised, "none" when none
    state,      \* the tensor being filled: multi-index -> value
    shape,      \* the shape the tensor was allocated with
    maxn,       \* the per-axis largest photon number handed to the fill
    written,    \* the cells assigned so far
    cur,        \* the multi-index the fill writes next
    reads,      \* the cells the most recent recursion step read
    unfilled,   \* cells that some step read before they were written
    ret,        \* the tensor returned to the caller
    sd,         \* a SymplecticData object: its mat, vec and coeffs
    log,        \* the calls of unimplemented operations made so far, with their outcome
    made,       \* the objects SymplecticData.__mul__ has returned
    heap,       \* the Fock tensors that exist, by object identity (position)
    orig,       \* the value each tensor had when it was produced
    lastOp,     \* the most recent Fock operation: its arguments and its result
    nops,       \* the number of Fock operations performed
    dy,         \* the upstream gradient handed to grad, in units of sqrt(n!)
    dLdC,       \* the gradient grad returns for C: [num, den], the value num / den
    ws,         \* the Wires objects that exist, by object identity (position)
    wlast,      \* the most recent Wires operation: its operands, result and outcome
    nid,        \* the number of ids the random generator has handed out as new values
    pset,       \* a ParameterSet: its _names, _constants and _variables
    plast,      \* the most recent add_parameter call and its outcome
    padded,     \* the names of the parameters added successfully, in call order
    comps,      \* the circuit components that exist
    clast,      \* the most recent >> of two components and its outcome
    sampler,    \* a Sampler: its _meas_outcomes, _meas_ops and _probs
    slast,      \* the most recent probs or sample call: its arguments, result and outcome
    bargs,      \* the Bargmann objects that exist, by object identity (position)
    blast       \* the most recent negation: its operand, result and outcome

gradVars == <<dy, dLdC>>

engineVars == <<entry, A, B, C, cutoffs, pc, err, state, shape, maxn, written, cur,
                reads, unfilled, ret, gradVars>>

stubVars == <<sd, log, made>>

fockVars == <<heap, orig, lastOp, nops>>

wiresVars == <<ws, wlast, nid>>

paramVars == <<pset, plast, padded>>

compVars == <<comps, clast>>

samplerVars == <<sampler, slast>>

bargVars == <<bargs, blast>>

reprVars == <<samplerVars, bargVars>>

labVars == <<wiresVars, paramVars, compVars, reprVars>>

vars == <<engineVars, stubVars, fockVars, labVars>>

\* ---------------------------------------------------------------- bounds
MaxModes == 2
MaxCutoff == 3
MaxCells == 9
MaxCalls == 2
MaxOps == 2
MaxWiresOps == 2

\* ---------------------------------------------------------------- complex numbers
CZero == <<0, 0>>
COne == <<1, 0>>
CAdd(a, b) == <<a[1] + b[1], a[2] + b[2]>>
CMul(a, b) == <<a[1] * b[1] - a[2] * b[2], a[1] * b[2] + a[2] * b[1]>>
CScale(k, a) == <<k * a[1], k * a[2]>>
CConj(a) == <<a[1], 0 - a[2]>>

\* the sum of the complex numbers f[x], x in S
RECURSIVE CSumFn(_, _)
CSumFn(f, S) ==
    IF S = {} THEN CZero
    ELSE LET x == CHOOSE x \in S : TRUE IN CAdd(f[x], CSumFn(f, S \ {x}))

\* ---------------------------------------------------------------- multi-indices
RECURSIVE Prod(_)
Prod(s) == IF Len(s) = 0 THEN 1 ELSE Head(s) * Prod(Tail(s))

RECURSIVE MaxOf(_)
MaxOf(s) == IF Len(s) = 0 THEN 0
            ELSE LET r == MaxOf(Tail(s)) IN IF Head(s) > r THEN Head(s) ELSE r

\* the index tuples of an array of shape shp (none when a dimension is 0)
Cells(shp) ==
    {n \in [1..Len(shp) -> 0..(MaxOf(shp) - 1)] : \A i \in 1..Len(shp) : n[i] < shp[i]}

ZeroIndex(r) == [i \in 1..r |-> 0]

Dec(n, k) == [n EXCEPT ![k] = @ - 1]

\* np.ndindex order: the last axis runs fastest
HasSucc(n, mx) == \E i \in 1..Len(n) : n[i] < mx[i]
Succ(n, mx) ==
    LET i == CHOOSE i \in 1..Len(n) : n[i] < mx[i] /\ \A j \in (i + 1)..Len(n) : n[j] >= mx[j]
    IN  [j \in 1..Len(n) |-> IF j < i THEN n[j] ELSE IF j = i THEN n[j] + 1 ELSE 0]

\* ---------------------------------------------------------------- inputs
IsSquare(M) == \A j \in 1..Len(M) : Len(M[j]) = Len(M)
IsSymmetric(M) == IsSquare(M) /\ \A j, k \in 1..Len(M) : M[j][k] = M[k][j]

\* families of test matrices (rows r, columns c), vectors and scalars
AZero(r, c) == [j \in 1..r |-> [k \in 1..c |-> CZero]]
ASymm(r, c) == [j \in 1..r |-> [k \in 1..c |-> IF j = k THEN <<0, 1>> ELSE <<1, 0>>]]
ASymm2(r, c) == [j \in 1..r |-> [k \in 1..c |-> <<j + k - 3, j * k - 1>>]]
AAsym(r, c) == [j \in 1..r |-> [k \in 1..c |-> IF j < k THEN <<1, 0>> ELSE IF j = k THEN <<0 - 1, 0>> ELSE <<0, 1>>]]
AChoices(r, c) == {AZero(r, c), ASymm(r, c), ASymm2(r, c), AAsym(r, c)}

BZero(l) == [k \in 1..l |-> CZero]
BOnes(l) == [k \in 1..l |-> COne]
BMix(l) == [k \in 1..l |-> <<k - 1, 1>>]
BChoices(l) == {BZero(l), BOnes(l), BMix(l)}

CChoices == {COne, <<0, 1>>, <<2, 0 - 1>>}

\* ---------------------------------------------------------------- _recursive_state
\* mixed = len(B) == 2*len(cutoffs)
Mixed(b, c) == Len(b) = 2 * Len(c)

\* tuple(x) + tuple(x)*mixed
Doubled(x, mixed) == IF mixed THEN x \o x ELSE x

\* mutant: the largest photon number is taken one too small
CutoffsMinus2(c, mixed) == Doubled([i \in 1..Len(c) |-> c[i] - 2], mixed)

\* cutoffs_minus_1 = tuple([c-1 for c in cutoffs] + [c-1 for c in cutoffs]*mixed)
CutoffsMinus1(c, mixed) == Doubled([i \in 1..Len(c) |-> c[i] - 1], mixed)

\* mutant: the shape is built from the cutoffs plus one
StateShapePlusOne(c, mixed) == Doubled([i \in 1..Len(c) |-> c[i] + 1], mixed)

\* the shape handed to np.zeros: tuple(cutoffs)+tuple(cutoffs)*mixed
StateShape(c, mixed) == Doubled(c, mixed)

\* the index of the base case: (0,)*(len(cutoffs) + len(cutoffs)*mixed)
BaseIndex(c, mixed) == ZeroIndex(Len(c) + (IF mixed THEN Len(c) ELSE 0))

\* np.zeros(shape, dtype=np.complex128)
Zeros(shp) == [n \in Cells(shp) |-> CZero]

\* mutant: the base-case assignment is left out
BaseCaseOmitted(shp, base, c) == [state |-> Zeros(shp), written |-> {}]

\* mutant: the base case is set to one instead of C
BaseCaseOne(shp, base, c) == [state |-> [Zeros(shp) EXCEPT ![base] = COne], written |-> {base}]

\* state = np.zeros(...); state[(0,)*...] = C : the tensor and the cells assigned so far
BaseCase(shp, base, c) == [state |-> [Zeros(shp) EXCEPT ![base] = c], written |-> {base}]

\* ---------------------------------------------------------------- the fill (recursion of section 4.2)
\* the axis the step decrements: the highest axis with a positive index
Pivot(n) == CHOOSE k \in 1..Len(n) : n[k] > 0 /\ \A j \in (k + 1)..Len(n) : n[j] = 0

\* the cells the step for n along axis k reads: G[m] and every G[m - e_j] with m_j > 0
ReadSet(n, k) ==
    LET m == Dec(n, k) IN {m} \cup {Dec(m, j) : j \in {j \in 1..Len(n) : m[j] > 0}}

RECURSIVE SumTerms(_, _, _, _, _)

\* mutant: the factor m_j of the neighbour terms is left out
SumTermsNoFactor(G, a, k, m, j) ==
    IF j = 0 THEN CZero
    ELSE CAdd(SumTerms(G, a, k, m, j - 1),
              IF m[j] > 0 THEN CMul(a[k][j], G[Dec(m, j)]) ELSE CZero)

SumTerms(G, a, k, m, j) ==
    IF j = 0 THEN CZero
    ELSE CAdd(SumTerms(G, a, k, m, j - 1),
              IF m[j] > 0 THEN CScale(m[j], CMul(a[k][j], G[Dec(m, j)])) ELSE CZero)

\* the value the recursion assigns to cell n when it decrements axis k
StepValue(G, a, b, n, k) ==
    LET m == Dec(n, k) IN CAdd(CMul(b[k], G[m]), SumTerms(G, a, k, m, Len(n)))

\* the failure semantics at entry to the fill
ShapeMismatch(a, b, r) == ~IsSquare(a) \/ Len(b) # Len(a) \/ r # Len(b)

\* ---------------------------------------------------------------- initial states
\* the parts of the state the engine does not touch
StubsIdle == sd = [mat |-> 0, vec |-> 0, coeffs |-> 0] /\ log = <<>> /\ made = <<>>
NoOp == [op |-> "none", args |-> <<>>, res |-> 0, keep |-> {}, outcome |-> "none"]
FockIdle == heap = <<>> /\ orig = <<>> /\ lastOp = NoOp /\ nops = 0
NoGrad == [num |-> CZero, den |-> 1]
GradIdle == dy = <<>> /\ dLdC = NoGrad
NoWiresOp == [op |-> "none", args |-> <<>>, pre |-> <<>>, res |-> 0, outcome |-> "none"]
WiresIdle == ws = <<>> /\ wlast = NoWiresOp /\ nid = 0
EmptySet == [names |-> <<>>, constants |-> {}, variables |-> {}]
NoAdd == [name |-> "", outcome |-> "none", pre |-> EmptySet]
ParamsIdle == pset = EmptySet /\ plast = NoAdd /\ padded = <<>>
NoShift == [a |-> 0, b |-> 0, outcome |-> "none", res |-> <<>>]
CompsIdle == comps = <<>> /\ clast = NoShift
\* Python's None, where an object or a list is expected
None == [none |-> TRUE]
NoSampler == [meas_outcomes |-> <<>>, meas_ops |-> <<>>, probs |-> None]
NoCall == [op |-> "none", state |-> None, outcome |-> "none", res |-> None]
SamplerIdle == sampler = NoSampler /\ slast = NoCall
NoNeg == [of |-> 0, res |-> 0, outcome |-> "none"]
BargIdle == bargs = <<>> /\ blast = NoNeg
ReprIdle == SamplerIdle /\ BargIdle
LabIdle == WiresIdle /\ ParamsIdle /\ CompsIdle /\ ReprIdle

Init ==
    /\ entry \in {"tf", "np"}
    /\ \E l \in 0..MaxModes :
         /\ cutoffs \in [1..l -> (0 - 1)..MaxCutoff]
         /\ \E lb \in {l, 2 * l, l + 1} : \E r \in {lb, lb + 1} : \E c \in {r, r + 1} :
              /\ r = lb \/ c = r
              /\ B \in BChoices(lb)
              /\ A \in AChoices(r, c)
    /\ (\A i \in 1..Len(cutoffs) : cutoffs[i] >= 1)
          => Prod(StateShape(cutoffs, Mixed(B, cutoffs))) <= MaxCells
    /\ C \in CChoices
    /\ pc = "start"
    /\ err = "none"
    /\ state = <<>>
    /\ shape = <<>>
    /\ maxn = <<>>
    /\ written = {}
    /\ cur = <<>>
    /\ reads = {}
    /\ unfilled = {}
    /\ ret = <<>>
    /\ GradIdle
    /\ StubsIdle
    /\ FockIdle
    /\ LabIdle

\* ---------------------------------------------------------------- actions
\* TFCircuitBackend._recursive_state up to the call of utils.fill_amplitudes
RecursiveState ==
    /\ UNCHANGED <<gradVars, stubVars, fockVars, labVars>>
    /\ pc = "start"
    /\ entry = "tf"
    /\ LET mixed == Mixed(B, cutoffs)
           shp == StateShape(cutoffs, mixed)
           base == BaseIndex(cutoffs, mixed)
       IN  IF \E i \in 1..Len(shp) : shp[i] < 0
           THEN \* np.zeros: negative dimensions are not allowed
                /\ err' = "ValueError"
                /\ pc' = "raised"
                /\ UNCHANGED <<state, shape, maxn, written, cur>>
           ELSE IF base \notin Cells(shp)
           THEN \* state[(0,...)] = C on an array without that cell
                /\ err' = "IndexError"
                /\ pc' = "raised"
                /\ state' = Zeros(shp)
                /\ shape' = shp
                /\ UNCHANGED <<maxn, written, cur>>
           ELSE /\ state' = BaseCase(shp, base, C).state
                /\ shape' = shp
                /\ written' = BaseCase(shp, base, C).written
                /\ maxn' = CutoffsMinus1(cutoffs, mixed)
                /\ cur' = base
                /\ pc' = "fill_entry"
                /\ UNCHANGED err
    /\ UNCHANGED <<entry, A, B, C, cutoffs, reads, unfilled, ret>>

\* utils.fill_amplitudes is entered with the array, A, B and cutoffs_minus_1
FillAmplitudes ==
    /\ UNCHANGED <<gradVars, stubVars, fockVars, labVars>>
    /\ pc = "fill_entry"
    /\ IF ShapeMismatch(A, B, Len(maxn))
       THEN err' = "ShapeMismatch" /\ pc' = "raised"
       ELSE pc' = "filling" /\ UNCHANGED err
    /\ UNCHANGED <<entry, A, B, C, cutoffs, state, shape, maxn, written, cur, reads,
                   unfilled, ret>>

\* NPMath.hermite_renormalized: strategies.vanilla(tuple(shape), A, B, C) allocates
\* the tensor of the given shape and sets the base case
HermiteRenormalized ==
    /\ UNCHANGED <<gradVars, stubVars, fockVars, labVars>>
    /\ pc = "start"
    /\ entry = "np"
    /\ IF \E i \in 1..Len(cutoffs) : cutoffs[i] < 1
       THEN /\ err' = "InvalidArgument"
            /\ pc' = "raised"
            /\ UNCHANGED <<state, shape, maxn, written, cur>>
       ELSE IF ShapeMismatch(A, B, Len(cutoffs))
       THEN /\ err' = "ShapeMismatch"
            /\ pc' = "raised"
            /\ UNCHANGED <<state, shape, maxn, written, cur>>
       ELSE /\ state' = [Zeros(cutoffs) EXCEPT ![ZeroIndex(Len(cutoffs))] = C]
            /\ shape' = cutoffs
            /\ written' = {ZeroIndex(Len(cutoffs))}
            /\ maxn' = [i \in 1..Len(cutoffs) |-> cutoffs[i] - 1]
            /\ cur' = ZeroIndex(Len(cutoffs))
            /\ pc' = "filling"
            /\ UNCHANGED err
    /\ UNCHANGED <<entry, A, B, C, cutoffs, reads, unfilled, ret>>

\* one step of the forward fill: the next multi-index in np.ndindex order
FillStep ==
    /\ UNCHANGED <<gradVars, stubVars, fockVars, labVars>>
    /\ pc = "filling"
    /\ HasSucc(cur, maxn)
    /\ LET n == Succ(cur, maxn)
           k == Pivot(n)
       IN  IF n \notin DOMAIN state
           THEN /\ err' = "IndexError"
                /\ pc' = "raised"
                /\ UNCHANGED <<state, written, cur, reads, unfilled>>
           ELSE /\ reads' = ReadSet(n, k)
                /\ unfilled' = unfilled \cup (ReadSet(n, k) \ written)
                /\ state' = [state EXCEPT ![n] = StepValue(state, A, B, n, k)]
                /\ written' = written \cup {n}
                /\ cur' = n
                /\ UNCHANGED <<pc, err>>
    /\ UNCHANGED <<entry, A, B, C, cutoffs, shape, maxn, ret>>

\* the fill has visited every multi-index; the tensor is returned
FillReturn ==
    /\ UNCHANGED <<gradVars, stubVars, fockVars, labVars>>
    /\ pc = "filling"
    /\ ~HasSucc(cur, maxn)
    /\ pc' = "done"
    /\ ret' = state
    /\ UNCHANGED <<entry, A, B, C, cutoffs, err, state, shape, maxn, written, cur, reads,
                   unfilled>>

\* ---------------------------------------------------------------- the engine as a function
\* the fill run to completion from cell n of tensor G
RECURSIVE FillFrom(_, _, _, _, _)
FillFrom(G, a, b, n, mx) ==
    IF HasSucc(n, mx)
    THEN LET n2 == Succ(n, mx)
         IN  FillFrom([G EXCEPT ![n2] = StepValue(G, a, b, n2, Pivot(n2))], a, b, n2, mx)
    ELSE G

\* the tensor the entry point e returns for (a, b, c) and the cutoffs cut (all >= 1)
EngineResult(e, a, b, c, cut) ==
    IF e = "tf"
    THEN LET mixed == Mixed(b, cut)
             base == BaseIndex(cut, mixed)
         IN  FillFrom(BaseCase(StateShape(cut, mixed), base, c).state, a, b, base,
                      CutoffsMinus1(cut, mixed))
    ELSE FillFrom([Zeros(cut) EXCEPT ![ZeroIndex(Len(cut))] = c], a, b, ZeroIndex(Len(cut)),
                  [i \in 1..Len(cut) |-> cut[i] - 1])

\* ---------------------------------------------------------------- the gradient for C
\* The upstream gradient dy is given in units of sqrt(n!): dy[n] = d[n] * sqrt(n!) with
\* d[n] a Gaussian integer, so that dy[n] * conj(G[n]) = d[n] * conj(H[n]) exactly.
DyChoices(shp) ==
    {[n \in Cells(shp) |-> COne],
     [n \in Cells(shp) |-> IF n = ZeroIndex(Len(shp)) THEN <<1, 1>> ELSE <<0 - 1, 2>>],
     [n \in Cells(shp) |-> IF n = ZeroIndex(Len(shp)) THEN CZero ELSE <<0, 1>>]}

\* mutant: the conjugation of dC is left out
DLdCNoConj(G, c, d) ==
    LET m == CMul(c, CConj(c))[1]
        dC == [n \in DOMAIN G |-> CMul(G[n], CConj(c))]
    IN  [num |-> CSumFn([n \in DOMAIN G |-> CMul(d[n], dC[n])], DOMAIN G), den |-> m]

\* dC = state / C;  dLdC = np.sum(dy*np.conj(dC), axis=tuple(range(dy.ndim))).
\* state[n] / C = state[n] * conj(C) / |C|^2; den = 0 stands for the non-finite result
\* of dividing by C = 0
DLdC(G, c, d) ==
    LET m == CMul(c, CConj(c))[1]
        dC == [n \in DOMAIN G |-> CMul(G[n], CConj(c))]
    IN  [num |-> CSumFn([n \in DOMAIN G |-> CMul(d[n], CConj(dC[n]))], DOMAIN G), den |-> m]

\* the closure grad returned by _recursive_state is called with dy
Grad ==
    /\ UNCHANGED <<stubVars, fockVars, labVars>>
    /\ pc = "done"
    /\ entry = "tf"
    /\ dy' \in DyChoices(shape)
    /\ dLdC' = DLdC(state, C, dy')
    /\ pc' = "graded"
    /\ UNCHANGED <<entry, A, B, C, cutoffs, err, state, shape, maxn, written, cur, reads,
                   unfilled, ret>>

Next ==
    \/ RecursiveState \/ FillAmplitudes \/ HermiteRenormalized \/ FillStep \/ FillReturn
    \/ Grad

Spec == Init /\ [][Next]_vars

\* ---------------------------------------------------------------- unimplemented operations
EngineIdle ==
    /\ entry = "tf" /\ A = <<>> /\ B = <<>> /\ C = CZero /\ cutoffs = <<>>
    /\ pc = "idle" /\ err = "none" /\ state = <<>> /\ shape = <<>> /\ maxn = <<>>
    /\ written = {} /\ cur = <<>> /\ reads = {} /\ unfilled = {} /\ ret = <<>>
    /\ GradIdle

InitStubs ==
    /\ EngineIdle
    /\ FockIdle
    /\ LabIdle
    /\ sd \in [mat : {1, 2}, vec : {0, 1}, coeffs : {1, 3}]
    /\ log = <<>>
    /\ made = <<>>

\* a function whose body is `pass` runs to its end and returns None
ReturnsNone(op) ==
    /\ Len(log) < MaxCalls
    /\ log' = Append(log, [op |-> op, outcome |-> "returned None"])
    /\ UNCHANGED <<sd, made, engineVars, fockVars, labVars>>

\* a function whose body is `raise NotImplementedError`
RaisesNotImplemented(op) ==
    /\ Len(log) < MaxCalls
    /\ log' = Append(log, [op |-> op, outcome |-> "raised NotImplementedError"])
    /\ UNCHANGED <<sd, made, engineVars, fockVars, labVars>>

UpdateTensor == ReturnsNone("update_tensor")
Categorical == ReturnsNone("Categorical")
MultivariateNormalTriL == ReturnsNone("MultivariateNormalTriL")
HermiteRenormalizedDiagonal == ReturnsNone("hermite_renormalized_diagonal")
HermiteRenormalized1LeftoverMode == ReturnsNone("hermite_renormalized_1leftoverMode")
BooleanMask == ReturnsNone("boolean_mask")
CustomGradient == ReturnsNone("custom_gradient")
ThermalX == RaisesNotImplemented("_thermal_X")
ThermalY == RaisesNotImplemented("_thermal_Y")

\* SymplecticData.__truediv__(other), other a scalar or a SymplecticData
SymplecticTruediv == \E other \in {"scalar", "object"} : RaisesNotImplemented("__truediv__")

\* SymplecticData.__mul__(other): a scalar gives a new object built from self's mat,
\* vec and coeffs; anything else raises
SymplecticMul ==
    /\ Len(log) < MaxCalls
    /\ \E other \in {"scalar", "object"} :
         IF other = "scalar"
         THEN /\ log' = Append(log, [op |-> "__mul__ scalar", outcome |-> "returned object"])
              /\ made' = Append(made, [mat |-> sd.mat, vec |-> sd.vec, coeffs |-> sd.coeffs])
         ELSE /\ log' = Append(log, [op |-> "__mul__ object",
                                     outcome |-> "raised NotImplementedError"])
              /\ UNCHANGED made
    /\ UNCHANGED <<sd, engineVars, fockVars, labVars>>

NextStubs ==
    \/ UpdateTensor \/ Categorical \/ MultivariateNormalTriL
    \/ HermiteRenormalizedDiagonal \/ HermiteRenormalized1LeftoverMode
    \/ BooleanMask \/ CustomGradient \/ ThermalX \/ ThermalY
    \/ SymplecticTruediv \/ SymplecticMul

SpecStubs == InitStubs /\ [][NextStubs]_vars

\* ---------------------------------------------------------------- Fock tensors
\* A tensor is [shape, val, den, rad, kind]: the entry at index n is
\* val[n] / (den * sqrt(rad)), val[n] a Gaussian integer; den = 0 stands for the
\* non-finite entries a division by zero leaves.  kind is what the caller knows
\* the tensor to be ("ket" or "dm") and passes as is_dm / a_is_mixed.

\* row-major position of index n in an array of shape shp, and its inverse
RECURSIVE Flat(_, _, _)
Flat(n, shp, i) == IF i = 0 THEN 0 ELSE Flat(n, shp, i - 1) * shp[i] + n[i]
Unflat(k, shp) == CHOOSE n \in Cells(shp) : Flat(n, shp, Len(shp)) = k

IndexOf(seq, x) == CHOOSE p \in 1..Len(seq) : seq[p] = x
Range(seq) == {seq[p] : p \in 1..Len(seq)}

\* NPMath.conj
TConj(T) == [T EXCEPT !.val = [n \in DOMAIN T.val |-> CConj(T.val[n])]]

\* NPMath.outer: np.outer flattens both arguments
Outer(T1, T2) ==
    LET shp == <<Prod(T1.shape), Prod(T2.shape)>>
    IN  [shape |-> shp,
         val |-> [ab \in Cells(shp) |->
                    CMul(T1.val[Unflat(ab[1], T1.shape)], T2.val[Unflat(ab[2], T2.shape)])],
         den |-> T1.den * T2.den,
         rad |-> T1.rad * T2.rad,
         kind |-> "dm"]

\* fock.ket_to_dm
KetToDmOf(ket) ==
    LET o == Outer(ket, TConj(ket))
    IN  [o EXCEPT !.den = ket.den * ket.den * ket.rad, !.rad = 1]

\* the axes of an array of rank r that are not in the list ax, in increasing order
FreeAxes(r, ax) == SelectSeq([a \in 1..r |-> a], LAMBDA a : a \notin Range(ax))

\* NPMath.tensordot(T1, T2, axes=(ax1, ax2)): the free axes of T1, then those of T2
Tensordot(T1, T2, ax1, ax2) ==
    LET f1 == FreeAxes(Len(T1.shape), ax1)
        f2 == FreeAxes(Len(T2.shape), ax2)
        shp == [p \in 1..(Len(f1) + Len(f2)) |->
                  IF p <= Len(f1) THEN T1.shape[f1[p]] ELSE T2.shape[f2[p - Len(f1)]]]
        cs == Cells([p \in 1..Len(ax1) |-> T1.shape[ax1[p]]])
        i1(idx, c) == [a \in 1..Len(T1.shape) |->
                         IF a \in Range(ax1) THEN c[IndexOf(ax1, a)] ELSE idx[IndexOf(f1, a)]]
        i2(idx, c) == [a \in 1..Len(T2.shape) |->
                         IF a \in Range(ax2) THEN c[IndexOf(ax2, a)]
                         ELSE idx[Len(f1) + IndexOf(f2, a)]]
    IN  [shape |-> shp,
         val |-> [idx \in Cells(shp) |->
                    CSumFn([c \in cs |-> CMul(T1.val[i1(idx, c)], T2.val[i2(idx, c)])], cs)],
         den |-> T1.den * T2.den,
         rad |-> T1.rad * T2.rad,
         kind |-> "ket"]

\* tensordot raises ValueError when the contracted axes differ in length
DotShapesAgree(T1, T2, ax1, ax2) ==
    /\ Len(ax1) = Len(ax2)
    /\ \A p \in 1..Len(ax1) :
         /\ ax1[p] \in 1..Len(T1.shape)
         /\ ax2[p] \in 1..Len(T2.shape)
         /\ T1.shape[ax1[p]] = T2.shape[ax2[p]]

\* mutant: the input axis of a traced mode keeps its own label
TraceLabelsInKept(nd, keep) ==
    LET h == nd \div 2
    IN  [a \in 1..(2 * h) |->
           IF a <= h
           THEN IF (a - 1) \in keep THEN <<"out", a - 1>> ELSE <<"contract", a - 1>>
           ELSE <<"in", a - h - 1>>]

\* the axis labels fock.trace gives a tensor of rank nd: out_i / in_i for the modes
\* kept, contract_i on both axes of the others
TraceLabels(nd, keep) ==
    LET h == nd \div 2
    IN  [a \in 1..(2 * h) |->
           IF a <= h
           THEN IF (a - 1) \in keep THEN <<"out", a - 1>> ELSE <<"contract", a - 1>>
           ELSE IF (a - h - 1) \in keep THEN <<"in", a - h - 1>>
                ELSE <<"contract", a - h - 1>>]

\* MMTensor.contract: einsum over the labels; a label that occurs more than once is
\* summed over, the others are the axes of the result in order of appearance
Contract(T, labels) ==
    LET occ(l) == {a \in 1..Len(labels) : labels[a] = l}
        rep == {l \in Range(labels) : Cardinality(occ(l)) > 1}
        outAx == SelectSeq([a \in 1..Len(labels) |-> a], LAMBDA a : labels[a] \notin rep)
        shp == [p \in 1..Len(outAx) |-> T.shape[outAx[p]]]
        dimOf(l) == T.shape[CHOOSE a \in occ(l) : TRUE]
        cs == {c \in [rep -> 0..(MaxOf(T.shape) - 1)] : \A l \in rep : c[l] < dimOf(l)}
        full(idx, c) == [a \in 1..Len(labels) |->
                           IF labels[a] \in rep THEN c[labels[a]] ELSE idx[IndexOf(outAx, a)]]
    IN  [shape |-> shp,
         val |-> [idx \in Cells(shp) |-> CSumFn([c \in cs |-> T.val[full(idx, c)]], cs)],
         den |-> T.den,
         rad |-> T.rad,
         kind |-> "dm"]

\* a tensor with axes (out_0..out_{N-1}, in_0..in_{N-1}), the in axis of a mode as long
\* as its out axis
IsDensityShape(T) ==
    LET h == Len(T.shape) \div 2
    IN  /\ Len(T.shape) = 2 * h
        /\ \A a \in 1..h : T.shape[a] = T.shape[a + h]

\* fock.trace(dm, keep)
TraceOf(dm, keep) == Contract(dm, TraceLabels(Len(dm.shape), keep))

\* math.sum(math.all_diagonals(fock, real=False)): the sum of the entries fock[n, n]
SumDiagonals(T) ==
    LET h == Len(T.shape) \div 2
        ns == Cells(SubSeq(T.shape, 1, h))
    IN  CSumFn([n \in ns |-> T.val[n \o n]], ns)

\* math.norm(fock) squared, in units of the tensor's scale
NormSquared(T) ==
    LET f == [n \in DOMAIN T.val |-> CMul(T.val[n], CConj(T.val[n]))]
    IN  CSumFn(f, DOMAIN T.val)[1]

Abs(x) == IF x < 0 THEN 0 - x ELSE x

RECURSIVE Gcd(_, _)
Gcd(a, b) == IF b = 0 THEN Abs(a) ELSE Gcd(b, a % Abs(b))

RECURSIVE GcdOfEntries(_, _, _)
GcdOfEntries(v, S, g) ==
    IF S = {} \/ g = 1 THEN g
    ELSE LET n == CHOOSE n \in S : TRUE
         IN  GcdOfEntries(v, S \ {n}, Gcd(Gcd(g, v[n][1]), v[n][2]))

\* the same tensor with the common factor of its entries and its denominator cancelled
Reduced(T) ==
    LET g == GcdOfEntries(T.val, DOMAIN T.val, T.den)
    IN  IF g <= 1 THEN T
        ELSE [T EXCEPT !.val = [n \in DOMAIN T.val |-> <<T.val[n][1] \div g, T.val[n][2] \div g>>],
                       !.den = T.den \div g]

\* T / z for the scalar z = t / scale of T, t a Gaussian integer
DividedByScalar(T, t) ==
    LET m == CMul(t, CConj(t))[1]
    IN  Reduced([T EXCEPT !.val = [n \in DOMAIN T.val |-> CMul(T.val[n], CConj(t))],
                          !.den = m, !.rad = 1])

\* T / norm(T)
DividedByNorm(T) ==
    LET s == NormSquared(T)
    IN  IF s = 0 THEN [T EXCEPT !.den = 0, !.rad = 1] ELSE [T EXCEPT !.den = 1, !.rad = s]

\* fock.normalize(fock, is_dm)
NormalizeOf(T, is_dm) ==
    IF is_dm THEN DividedByScalar(T, SumDiagonals(T)) ELSE DividedByNorm(T)

\* the number of modes of a tensor
NModes(T) == IF T.kind = "ket" THEN Len(T.shape) ELSE Len(T.shape) \div 2

\* fock.contract_states(stateA, stateB, a_is_mixed, b_is_mixed, modes, normalize):
\* the tensordot calls of the four branches, [ok, out]; ok is FALSE when a tensordot
\* raises ValueError
ContractBranch(SA, SB, aMixed, bMixed, modes) ==
    LET k == Len(modes)
        ind == [p \in 1..k |-> p]
        md == [p \in 1..k |-> modes[p] + 1]
        mdIn == [p \in 1..k |-> modes[p] + (Len(SA.shape) \div 2) + 1]
        indIn == [p \in 1..k |-> p + (Len(SB.shape) \div 2)]
        none == [ok |-> FALSE, out |-> SA]
    IN  IF ~aMixed /\ ~bMixed
        THEN IF DotShapesAgree(TConj(SB), SA, ind, md)
             THEN [ok |-> TRUE, out |-> Tensordot(TConj(SB), SA, ind, md)]
             ELSE none
        ELSE IF aMixed /\ ~bMixed
        THEN IF DotShapesAgree(SA, SB, mdIn, ind)
             THEN LET Ab == Tensordot(SA, SB, mdIn, ind)
                  IN  IF DotShapesAgree(TConj(SB), Ab, ind, md)
                      THEN [ok |-> TRUE, out |-> Tensordot(TConj(SB), Ab, ind, md)]
                      ELSE none
             ELSE none
        ELSE IF ~aMixed /\ bMixed
        THEN IF DotShapesAgree(SB, SA, ind, md)
             THEN LET Ba == Tensordot(SB, SA, ind, md)
                  IN  IF DotShapesAgree(TConj(SA), Ba, md, ind)
                      THEN [ok |-> TRUE, out |-> Tensordot(TConj(SA), Ba, md, ind)]
                      ELSE none
             ELSE none
        ELSE IF DotShapesAgree(SA, TConj(SB), md \o mdIn, ind \o indIn)
             THEN [ok |-> TRUE, out |-> Tensordot(SA, TConj(SB), md \o mdIn, ind \o indIn)]
             ELSE none

ContractStatesOf(SA, SB, aMixed, bMixed, modes, normalize) ==
    LET r == ContractBranch(SA, SB, aMixed, bMixed, modes)
        kd == IF aMixed \/ bMixed THEN "dm" ELSE "ket"
        out == Reduced([r.out EXCEPT !.kind = kd])
    IN  [ok |-> r.ok,
         out |-> IF ~r.ok \/ ~normalize THEN out
                 ELSE IF kd = "ket" THEN DividedByNorm(out)
                 ELSE DividedByScalar(out, SumDiagonals(out))]

\* np.add.at(tensor, indices, values): values added at every index of the list, an
\* index that occurs twice receiving it twice
AddAt(T, indices, v) ==
    [T EXCEPT !.val = [n \in DOMAIN T.val |->
        CAdd(T.val[n], CScale(Cardinality({p \in 1..Len(indices) : indices[p] = n}), v))]]

\* the tensors the operations start from
Ket2 == [shape |-> <<2>>, val |-> [n \in Cells(<<2>>) |-> <<1, n[1]>>],
         den |-> 1, rad |-> 1, kind |-> "ket"]
Ket23 == [shape |-> <<2, 3>>, val |-> [n \in Cells(<<2, 3>>) |-> <<n[1], n[2] - 1>>],
          den |-> 1, rad |-> 1, kind |-> "ket"]
Dm22 == [shape |-> <<2, 2>>,
         val |-> [n \in Cells(<<2, 2>>) |-> <<1 - n[1] * n[2], n[1] - n[2]>>],
         den |-> 1, rad |-> 1, kind |-> "dm"]
Dm2323 == [shape |-> <<2, 3, 2, 3>>,
           val |-> [n \in Cells(<<2, 3, 2, 3>>) |->
                      <<(n[1] + n[2] + n[4]) % 2, n[3] - n[1]>>],
           den |-> 1, rad |-> 1, kind |-> "dm"]

InitFock ==
    /\ EngineIdle
    /\ StubsIdle
    /\ LabIdle
    /\ heap \in {<<Ket23, Ket2>>, <<Dm2323, Ket2>>, <<Ket23, Dm22>>, <<Dm2323, Dm22>>}
    /\ orig = heap
    /\ lastOp = NoOp
    /\ nops = 0

\* an operation that returns the new tensor T
Produces(name, args, keep, T) ==
    /\ heap' = Append(heap, T)
    /\ orig' = Append(orig, T)
    /\ lastOp' = [op |-> name, args |-> args, res |-> Len(heap) + 1, keep |-> keep,
                  outcome |-> "returned"]
    /\ nops' = nops + 1
    /\ UNCHANGED <<engineVars, stubVars, labVars>>

\* an operation that raises
Fails(name, args, exc) ==
    /\ lastOp' = [op |-> name, args |-> args, res |-> 0, keep |-> {}, outcome |-> exc]
    /\ nops' = nops + 1
    /\ UNCHANGED <<heap, orig, engineVars, stubVars, labVars>>

KetToDm ==
    /\ nops < MaxOps
    /\ \E i \in 1..Len(heap) :
         /\ heap[i].kind = "ket"
         /\ Produces("ket_to_dm", <<i>>, {}, KetToDmOf(heap[i]))

Trace ==
    /\ nops < MaxOps
    /\ \E i \in 1..Len(heap) :
         /\ heap[i].kind = "dm"
         /\ IsDensityShape(heap[i])
         /\ \E keep \in SUBSET (0..(NModes(heap[i]) - 1)) :
              Produces("trace", <<i>>, keep, TraceOf(heap[i], keep))

Normalize ==
    /\ nops < MaxOps
    /\ \E i \in 1..Len(heap) :
         Produces("normalize", <<i>>, {}, NormalizeOf(heap[i], heap[i].kind = "dm"))

ContractStates ==
    /\ nops < MaxOps
    /\ \E a, b \in 1..Len(heap) : \E normalize \in BOOLEAN :
       \E modes \in [1..NModes(heap[b]) -> 0..(NModes(heap[a]) - 1)] :
         /\ a # b
         /\ NModes(heap[b]) >= 1
         /\ \A p, q \in DOMAIN modes : p # q => modes[p] # modes[q]
         /\ LET r == ContractStatesOf(heap[a], heap[b], heap[a].kind = "dm",
                                      heap[b].kind = "dm", modes, normalize)
            IN  IF r.ok THEN Produces("contract_states", <<a, b>>, {}, r.out)
                ELSE Fails("contract_states", <<a, b>>, "ValueError")

\* NPMath.update_add_tensor(tensor, indices, values) under @Autocast(): when the dtypes
\* of the arguments differ they are cast (astype: copies) before the call, otherwise
\* the caller's array is passed; np.add.at then adds in place and the array is returned
UpdateAddTensor ==
    /\ nops < MaxOps
    /\ \E i \in 1..Len(heap) : \E cast \in BOOLEAN :
         LET z == ZeroIndex(Len(heap[i].shape))
             T == AddAt(heap[i], <<z, z>>, COne)
         IN  IF cast
             THEN Produces("update_add_tensor", <<i>>, {}, T)
             ELSE /\ heap' = [heap EXCEPT ![i] = T]
                  /\ lastOp' = [op |-> "update_add_tensor", args |-> <<i>>, res |-> i,
                                keep |-> {}, outcome |-> "returned"]
                  /\ nops' = nops + 1
                  /\ UNCHANGED <<orig, engineVars, stubVars, labVars>>

NextFock == KetToDm \/ Trace \/ Normalize \/ ContractStates \/ UpdateAddTensor

SpecFock == InitFock /\ [][NextFock]_vars

\* ---------------------------------------------------------------- Wires
\* A Wires object is [modes, ida, mask, dim, by]: modes is the list _modes, ida the
\* rows of _id_array (one per entry of _modes), mask the rows of _mask, dim the number
\* of dimensions of the two arrays (np.array([]) of an object without modes has one),
\* and by records the call that made the object.  Columns 1..4 are the code's columns
\* 0..3: output bra, input bra, output ket, input ket.
ModeUniverse == {1, 8}
Cols == 1..4

\* the elements of the set S as a list, in increasing order of key
OrderedBy(S, key) ==
    CHOOSE q \in [1..Cardinality(S) -> S] :
        \A i, j \in 1..Cardinality(S) : i < j => key[q[i]] < key[q[j]]

\* list(set(...)) in CPython: a set of at most four small non-negative ints sits in a
\* table of eight slots, the int m in slot m mod 8, and is iterated by slot
ListOfSet(S) == OrderedBy(S, [m \in S |-> m % 8])

\* sorted(...)
SortedList(S) == OrderedBy(S, [m \in S |-> m])

\* the draws of settings.rng.integers(1, 2**62) in one constructor call that needs k
\* ids, after n values have been handed out: k values not seen before, the k values
\* the generator handed out first, or one value k times
Streams(k, n) ==
    {[i \in 1..k |-> n + i], [i \in 1..k |-> i], [i \in 1..k |-> 1]}

\* how an object was made: the call, the object it was called on, the columns and
\* rows a view masks, and the mode groups a constructor call was given
By(op, of, cols, rows, groups) ==
    [op |-> op, of |-> of, cols |-> cols, rows |-> rows, groups |-> groups]

\* the number of ids Wires.__init__ draws for the four mode groups
NDraws(groups) == Cardinality({<<m, c>> \in ModeUniverse \X Cols : m \in Range(groups[c])})

\* Wires.__init__: the ids are drawn group by group, within a group in _modes order
NewWires(groups, stream) ==
    LET ms == ListOfSet(UNION {Range(groups[c]) : c \in Cols})
        n == Len(ms)
        has(r, c) == ms[r] \in Range(groups[c])
        nth(r, c) == 1 + Cardinality({rc \in (1..n) \X Cols :
                                        /\ has(rc[1], rc[2])
                                        /\ \/ rc[2] < c
                                           \/ rc[2] = c /\ rc[1] < r})
    IN  [modes |-> ms,
         ida |-> [r \in 1..n |-> [c \in Cols |-> IF has(r, c) THEN stream[nth(r, c)] ELSE 0]],
         mask |-> [r \in 1..n |-> [c \in Cols |-> 1]],
         dim |-> IF n = 0 THEN 1 ELSE 2,
         by |-> By("init", 0, {}, {}, groups)]

\* Wires._from_data(id_array, modes, mask)
FromData(ida, modes, mask, dim, by) ==
    [modes |-> modes, ida |-> ida, mask |-> mask, dim |-> dim, by |-> by]

\* Wires.id_array: self._id_array * self._mask
IdArray(w) == [r \in 1..Len(w.ida) |-> [c \in Cols |-> w.ida[r][c] * w.mask[r][c]]]

\* mutant: the array is flattened row after row
FlatRowMajor(w) ==
    LET n == Len(w.ida)
    IN  [i \in 1..(4 * n) |-> IdArray(w)[((i - 1) \div 4) + 1][((i - 1) % 4) + 1]]

\* id_array.T.ravel(): column after column
FlatT(w) ==
    LET n == Len(w.ida)
    IN  [i \in 1..(4 * n) |-> IdArray(w)[((i - 1) % n) + 1][((i - 1) \div n) + 1]]

\* Wires.ids
Ids(w) == SelectSeq(FlatT(w), LAMBDA x : x > 0)

\* Wires.modes
Modes(w) ==
    SelectSeq(w.modes, LAMBDA m : \E c \in Cols : IdArray(w)[IndexOf(w.modes, m)][c] > 0)

\* Wires.__bool__
Bool(w) == Len(Ids(w)) > 0

\* Wires._mode(mode): np.maximum(0, self.id_array[[index]])[0]
ModeRow(w, m) ==
    LET row == IdArray(w)[IndexOf(w.modes, m)]
    IN  [c \in Cols |-> IF row[c] > 0 THEN row[c] ELSE 0]

\* Wires._view(masked_rows, masked_cols): the mask is copied and the rows and columns
\* given are set to -1
ViewOf(w, rows, cols, by) ==
    FromData(w.ida, w.modes,
             [r \in 1..Len(w.mask) |->
                [c \in Cols |-> IF r \in rows \/ c \in cols THEN 0 - 1 ELSE w.mask[r][c]]],
             w.dim, by)

\* the rows Wires.__getitem__(modes) masks: those of the modes not asked for
RowsOutside(w, ms) == {r \in 1..Len(w.modes) : w.modes[r] \notin ms}

\* Wires.adjoint: self._id_array[:, [2, 3, 0, 1]]
AdjointOf(w, by) ==
    FromData([r \in 1..Len(w.ida) |-> <<w.ida[r][3], w.ida[r][4], w.ida[r][1], w.ida[r][2]>>],
             w.modes, w.mask, w.dim, by)

\* Wires.dual: self._id_array[:, [1, 0, 3, 2]]
DualOf(w, by) ==
    FromData([r \in 1..Len(w.ida) |-> <<w.ida[r][2], w.ida[r][1], w.ida[r][4], w.ida[r][3]>>],
             w.modes, w.mask, w.dim, by)

\* Wires._args(): per column the modes whose entry of _id_array is positive
ArgsOf(w) ==
    [c \in Cols |-> SelectSeq(w.modes, LAMBDA m : w.ida[IndexOf(w.modes, m)][c] > 0)]

\* the row of w for mode m as __add__ reads it: the row of id_array, or np.zeros(4)
RowOrZeros(w, m) ==
    IF m \in Range(Modes(w)) THEN IdArray(w)[IndexOf(w.modes, m)] ELSE [c \in Cols |-> 0]

\* np.where(row > 0): the positive columns, in increasing order
WherePositive(row) == SelectSeq([c \in Cols |-> c], LAMBDA c : row[c] > 0)

\* the numpy the program runs on: the comparison of arrays whose shapes cannot be
\* broadcast is False before 1.25 and raises ValueError from 1.25 on; the truth value
\* of an empty array is False before 2.2 and raises ValueError from 2.2 on
NumpyVersions == {"before 1.25", "1.25 to 2.1", "2.2 or later"}

\* np.any(np.where(self_row > 0) == np.where(other_row > 0)): the two one-element
\* tuples are compared, which takes the truth value of the comparison of the two index
\* arrays: "true", "false" or "raise" (ValueError)
WhereEqual(pa, pb, numpy) ==
    LET k == Len(pa)
        l == Len(pb)
    IN  IF k = l \/ k = 1 \/ l = 1
        THEN \* the shapes broadcast: an array of max(k, l) truth values, none when one
             \* of the two is empty
             IF k = 0 \/ l = 0
             THEN IF numpy = "2.2 or later" THEN "raise" ELSE "false"
             ELSE IF k = 1 /\ l = 1
             THEN IF pa = pb THEN "true" ELSE "false"
             ELSE "raise"
        ELSE IF numpy = "before 1.25" THEN "false" ELSE "raise"

\* Wires.__add__: [outcome, w]
AddOf(a, b, numpy, by) ==
    LET all == SortedList(Range(Modes(a)) \cup Range(Modes(b)))
        eq(m) == WhereEqual(WherePositive(RowOrZeros(a, m)),
                            WherePositive(RowOrZeros(b, m)), numpy)
        stop == {i \in 1..Len(all) : eq(all[i]) # "false"}
        first == CHOOSE i \in stop : \A j \in stop : i <= j
        rows == [i \in 1..Len(all) |->
                   [c \in Cols |-> IF RowOrZeros(a, all[i])[c] > 0
                                   THEN RowOrZeros(a, all[i])[c]
                                   ELSE RowOrZeros(b, all[i])[c]]]
        w == FromData(rows, all, [i \in 1..Len(all) |-> [c \in Cols |-> 1]],
                      IF Len(all) = 0 THEN 1 ELSE 2, by)
    IN  IF stop = {} THEN [outcome |-> "returned", w |-> w]
        ELSE IF eq(all[first]) = "true"
        THEN [outcome |-> "ValueError: wires overlap", w |-> w]
        ELSE [outcome |-> "ValueError: numpy", w |-> w]

\* the errors dictionary of __rshift__ for one mode: is any of its values true
RshiftErrors(s, o) ==
    \/ s[1] # 0 /\ o[1] # 0 /\ o[2] = 0
    \/ s[3] # 0 /\ o[3] # 0 /\ o[4] = 0
    \/ o[2] # 0 /\ s[2] # 0 /\ s[1] = 0
    \/ o[4] # 0 /\ s[4] # 0 /\ s[3] = 0

\* the row __rshift__ builds for a mode both operands have; out and in are the columns
\* of one side (1, 2 for bra and 3, 4 for ket)
RshiftSide(s, o, out, in) ==
    IF (s[out] # 0) = (o[in] # 0) THEN <<o[out], s[in]>>
    ELSE IF s[in] = 0 /\ s[out] = 0 THEN <<o[out], o[in]>>
    ELSE <<s[out], s[in]>>

\* mutant: the matched input wire of the second operand survives
RshiftRowKeepsInput(s, o) ==
    <<RshiftSide(s, o, 1, 2)[1], IF o[2] # 0 THEN o[2] ELSE s[2],
      RshiftSide(s, o, 3, 4)[1], IF o[4] # 0 THEN o[4] ELSE s[4]>>

RshiftRow(s, o) == RshiftSide(s, o, 1, 2) \o RshiftSide(s, o, 3, 4)

\* Wires.__rshift__: [outcome, w]
RshiftOf(a, b, by) ==
    LET ma == Range(Modes(a))
        mb == Range(Modes(b))
        all == SortedList(ma \cup mb)
        clash == {i \in 1..Len(all) :
                    /\ all[i] \in ma \cap mb
                    /\ RshiftErrors(ModeRow(a, all[i]), ModeRow(b, all[i]))}
        rows == [i \in 1..Len(all) |->
                   IF all[i] \in ma \cap mb
                   THEN RshiftRow(ModeRow(a, all[i]), ModeRow(b, all[i]))
                   ELSE IF all[i] \in ma THEN ModeRow(a, all[i])
                   ELSE ModeRow(b, all[i])]
        w == FromData(rows, all, [i \in 1..Len(all) |-> [c \in Cols |-> 1]], 2, by)
    IN  [outcome |-> IF clash = {} THEN "returned" ELSE "ValueError: wire overlap", w |-> w]

\* ---------------------------------------------------------------- Wires: one object
EngineStubsFockIdle == EngineIdle /\ StubsIdle /\ FockIdle

InitWires ==
    /\ EngineStubsFockIdle
    /\ LabIdle

\* the lists a mode group can be given as: the modes of a subset in either order
GroupLists == {<<>>, <<1>>, <<8>>, <<1, 8>>, <<8, 1>>}

\* a Wires call that returns the new object w
WiresReturns(op, args, w, drawn) ==
    /\ ws' = Append(ws, w)
    /\ wlast' = [op |-> op, args |-> args, pre |-> ws, res |-> Len(ws) + 1,
                 outcome |-> "returned"]
    /\ nid' = nid + drawn
    /\ UNCHANGED <<engineVars, stubVars, fockVars, paramVars, compVars, reprVars>>

\* a Wires call that raises
WiresRaises(op, args, exc) ==
    /\ wlast' = [op |-> op, args |-> args, pre |-> ws, res |-> 0, outcome |-> exc]
    /\ UNCHANGED <<ws, nid, engineVars, stubVars, fockVars, paramVars, compVars, reprVars>>

\* Wires(modes_out_bra, modes_in_bra, modes_out_ket, modes_in_ket)
Construct ==
    /\ ws = <<>>
    /\ \E groups \in [Cols -> GroupLists] : \E stream \in Streams(NDraws(groups), nid) :
         WiresReturns("init", <<>>, NewWires(groups, stream), NDraws(groups))

\* a property or method that indexes the two-dimensional arrays: on the arrays of an
\* object without modes (np.array([]), one-dimensional) the index raises IndexError
Indexing(op, i, w) ==
    /\ Len(ws) <= MaxWiresOps
    /\ IF ws[i].dim = 1 THEN WiresRaises(op, <<i>>, "IndexError")
       ELSE WiresReturns(op, <<i>>, w, 0)

\* Wires.input: self._view(masked_cols=(0, 2))
Input ==
    \E i \in 1..Len(ws) : Indexing("input", i, ViewOf(ws[i], {}, {1, 3}, By("view", i, {1, 3}, {}, <<>>)))

\* Wires.output: self._view(masked_cols=(1, 3))
Output ==
    \E i \in 1..Len(ws) : Indexing("output", i, ViewOf(ws[i], {}, {2, 4}, By("view", i, {2, 4}, {}, <<>>)))

\* Wires.ket: self._view(masked_cols=(0, 1))
Ket ==
    \E i \in 1..Len(ws) : Indexing("ket", i, ViewOf(ws[i], {}, {1, 2}, By("view", i, {1, 2}, {}, <<>>)))

\* Wires.bra: self._view(masked_cols=(2, 3))
Bra ==
    \E i \in 1..Len(ws) : Indexing("bra", i, ViewOf(ws[i], {}, {3, 4}, By("view", i, {3, 4}, {}, <<>>)))

\* Wires.__getitem__(modes)
GetItem ==
    \E i \in 1..Len(ws) : \E ms \in SUBSET ModeUniverse :
        Indexing("getitem", i,
                 ViewOf(ws[i], RowsOutside(ws[i], ms), {},
                        By("view", i, {}, RowsOutside(ws[i], ms), <<>>)))

\* Wires.adjoint
Adjoint ==
    \E i \in 1..Len(ws) : Indexing("adjoint", i, AdjointOf(ws[i], By("adjoint", i, {}, {}, <<>>)))

\* Wires.dual
Dual ==
    \E i \in 1..Len(ws) : Indexing("dual", i, DualOf(ws[i], By("dual", i, {}, {}, <<>>)))

\* Wires.copy(): w = Wires(*self._args()); w._mask = self._mask.copy()
Copy ==
    /\ Len(ws) <= MaxWiresOps
    /\ \E i \in 1..Len(ws) :
         IF ws[i].dim = 1 THEN WiresRaises("copy", <<i>>, "IndexError")
         ELSE \E stream \in Streams(NDraws(ArgsOf(ws[i])), nid) :
                WiresReturns("copy", <<i>>,
                             [NewWires(ArgsOf(ws[i]), stream) EXCEPT
                                 !.mask = ws[i].mask,
                                 !.by = By("copy", i, {}, {}, ArgsOf(ws[i]))],
                             NDraws(ArgsOf(ws[i])))

NextWires ==
    \/ Construct \/ Input \/ Output \/ Ket \/ Bra \/ GetItem \/ Adjoint \/ Dual \/ Copy

SpecWires == InitWires /\ [][NextWires]_vars

\* ---------------------------------------------------------------- Wires: two objects
\* the mode groups of the two operands: mode 1 is in any of the four groups of either,
\* mode 8 comes with mode 1 in the first operand and alone in the second
GroupsOfFirst == {<<>>, <<1>>, <<1, 8>>}
GroupsOfSecond == {<<>>, <<1>>, <<8>>}

\* the ids of a constructor call that draws k values not handed out before
FreshIds(k, n) == [i \in 1..k |-> n + i]

\* two objects built by the constructor, the first one taken as it is or through its
\* output view
InitWiresPair ==
    /\ EngineStubsFockIdle
    /\ ReprIdle
    /\ ParamsIdle
    /\ CompsIdle
    /\ \E ga \in [Cols -> GroupsOfFirst] : \E gb \in [Cols -> GroupsOfSecond] :
       \E cols \in {{}, {2, 4}} :
         LET ka == NDraws(ga)
             kb == NDraws(gb)
             a == NewWires(ga, FreshIds(ka, 0))
             b == NewWires(gb, FreshIds(kb, ka))
         IN  /\ ws = <<IF cols = {} \/ a.dim = 1 THEN a
                       ELSE ViewOf(a, {}, cols, By("view", 0, cols, {}, ga)), b>>
             /\ nid = ka + kb
    /\ wlast = NoWiresOp

\* the outcome of a binary operation r = [outcome, w] on the first two objects
Binary(op, r) ==
    /\ Len(ws) = 2
    /\ IF r.outcome = "returned" THEN WiresReturns(op, <<1, 2>>, r.w, 0)
       ELSE WiresRaises(op, <<1, 2>>, r.outcome)

\* a + b
Add == \E numpy \in NumpyVersions : Binary("add", AddOf(ws[1], ws[2], numpy, By("add", 1, {}, {}, <<>>)))

\* a >> b
Rshift == Binary("rshift", RshiftOf(ws[1], ws[2], By("rshift", 1, {}, {}, <<>>)))

NextWiresPair == Add \/ Rshift

SpecWiresPair == InitWiresPair /\ [][NextWiresPair]_vars

\* ---------------------------------------------------------------- ParameterSet
\* A parameter is [name, kind], kind "Constant" or "Variable"; the dictionaries
\* _constants and _variables are modelled by the sets of the parameters they hold.
ParamNames == {"x", "y", "r"}
Parameters == [name : ParamNames, kind : {"Constant", "Variable"}]

InitParams ==
    /\ EngineStubsFockIdle
    /\ ReprIdle
    /\ WiresIdle
    /\ CompsIdle
    /\ ParamsIdle

\* mutant: the name is appended before the duplicate is looked for
AppendThenCheck(ps, param) ==
    IF param.name \in Range(ps.names)
    THEN [outcome |-> "ValueError", ps |-> [ps EXCEPT !.names = Append(ps.names, param.name)]]
    ELSE [outcome |-> "added",
          ps |-> [names |-> Append(ps.names, param.name),
                  constants |-> IF param.kind = "Constant" THEN ps.constants \cup {param}
                                ELSE ps.constants,
                  variables |-> IF param.kind = "Variable" THEN ps.variables \cup {param}
                                ELSE ps.variables]]

\* ParameterSet.add_parameter(parameter): [outcome, ps]
AddParameterOf(ps, param) ==
    IF param.name \in Range(ps.names)
    THEN [outcome |-> "ValueError", ps |-> ps]
    ELSE [outcome |-> "added",
          ps |-> [names |-> Append(ps.names, param.name),
                  constants |-> IF param.kind = "Constant" THEN ps.constants \cup {param}
                                ELSE ps.constants,
                  variables |-> IF param.kind = "Variable" THEN ps.variables \cup {param}
                                ELSE ps.variables]]

AddParameter ==
    /\ \E param \in Parameters :
         LET r == AddParameterOf(pset, param)
         IN  /\ pset' = r.ps
             /\ plast' = [name |-> param.name, outcome |-> r.outcome, pre |-> pset]
             /\ padded' = IF r.outcome = "added" THEN Append(padded, param.name) ELSE padded
    /\ UNCHANGED <<engineVars, stubVars, fockVars, wiresVars, compVars, reprVars>>

NextParams == AddParameter

SpecParams == InitParams /\ [][NextParams]_vars

\* ---------------------------------------------------------------- CircuitComponent
\* A component is [name, wires]; its representation plays no part in what follows.
\* the mode groups the components are built with: mode 1 in any of the four groups,
\* and two components on two modes
ComponentGroups ==
    [Cols -> {<<>>, <<1>>}] \cup {<<<<1, 8>>, <<>>, <<1, 8>>, <<>>>>,
                                  <<<<>>, <<>>, <<1, 8>>, <<1, 8>>>>}

\* CircuitComponent.__init__: self._wires = Wires(set(modes_out_bra), ...)
NewComponent(name, groups, n) ==
    [name |-> name, wires |-> NewWires(groups, FreshIds(NDraws(groups), n))]

InitComps ==
    /\ EngineStubsFockIdle
    /\ ReprIdle
    /\ WiresIdle
    /\ ParamsIdle
    /\ \E ga, gb \in ComponentGroups :
         comps = <<NewComponent("a", ga, 0), NewComponent("b", gb, NDraws(ga))>>
    /\ clast = NoShift

\* bool(wires.ket) and bool(wires.bra): the view is taken first, and on the arrays of
\* a Wires object without modes it raises IndexError
KetTruth(w) == IF w.dim = 1 THEN "IndexError"
               ELSE IF Bool(ViewOf(w, {}, {1, 2}, w.by)) THEN "true" ELSE "false"
BraTruth(w) == IF w.dim = 1 THEN "IndexError"
               ELSE IF Bool(ViewOf(w, {}, {3, 4}, w.by)) THEN "true" ELSE "false"

\* `wires.ket and wires.bra`: the second operand is evaluated when the first is true
KetAndBra(w) == IF KetTruth(w) = "true" THEN BraTruth(w) ELSE KetTruth(w)

\* the expressions __rshift__ returns
SelfOther == <<"self", "@", "other">>
SelfOtherAdjoint == <<"self", "@", "other", "@", "other.adjoint">>
SelfAdjointOther == <<"self", "@", "self.adjoint", "@", "other">>

\* the evaluation of a returned expression: CircuitComponent.__matmul__ starts with
\* self.wires @ other.wires, an operator Wires does not define (TypeError), and
\* .adjoint builds an AdjointView, whose light_copy reads self.wires.args, an
\* attribute Wires does not have (AttributeError); the operands are evaluated first
Evaluated(expr) == IF expr = SelfAdjointOther THEN "AttributeError" ELSE "TypeError"

\* CircuitComponent.__rshift__ on the wires s of self and o of other: [outcome, res],
\* res the expression returned and outcome the exception its evaluation, or the
\* method itself, raises
ComponentRshiftOf(s, o) ==
    LET to(expr) == [outcome |-> Evaluated(expr), res |-> expr]
        raise(exc) == [outcome |-> exc, res |-> <<>>]
    IN  IF KetAndBra(s) = "IndexError" THEN raise("IndexError")
        ELSE IF KetAndBra(s) = "true"
        THEN IF KetAndBra(o) = "IndexError" THEN raise("IndexError")
             ELSE IF KetAndBra(o) = "true" THEN to(SelfOther)
             ELSE to(SelfOtherAdjoint)
        ELSE IF KetTruth(s) = "true"
        THEN IF KetAndBra(o) = "IndexError" THEN raise("IndexError")
             ELSE IF KetAndBra(o) = "true" THEN to(SelfAdjointOther)
             ELSE IF KetTruth(o) = "true" THEN to(SelfOther)
             ELSE raise("ValueError")
        ELSE IF BraTruth(s) = "true"
        THEN IF KetAndBra(o) = "IndexError" THEN raise("IndexError")
             ELSE IF KetAndBra(o) = "true" THEN to(SelfAdjointOther)
             ELSE IF BraTruth(o) = "true" THEN to(SelfOther)
             ELSE raise("ValueError")
        ELSE raise("ValueError")

\* a >> b for two components
ComponentRshift ==
    /\ clast = NoShift
    /\ \E i, j \in 1..Len(comps) :
         /\ i # j
         /\ LET r == ComponentRshiftOf(comps[i].wires, comps[j].wires)
            IN  clast' = [a |-> i, b |-> j, outcome |-> r.outcome, res |-> r.res]
    /\ UNCHANGED <<comps, engineVars, stubVars, fockVars, wiresVars, paramVars, reprVars>>

NextComps == ComponentRshift

SpecComps == InitComps /\ [][NextComps]_vars

\* ---------------------------------------------------------------- Sampler
\* A distribution is [num, den]: the probabilities num[i] / den. A state is
\* [modes, pop], pop[n + 1] the weight of photon number n in it; a measurement
\* operator is [modes, n], the number state n on the modes.
MaxSamples == 2
MeasOutcomes == <<0, 1, 2>>
NumberOps(modes) == [i \in 1..Len(MeasOutcomes) |-> [modes |-> modes, n |-> i - 1]]
MeasOpLists == {NumberOps({0}), NumberOps({0, 1})}
StoredDists == {[num |-> <<0, 0, 1>>, den |-> 1], [num |-> <<3, 4, 5>>, den |-> 10],
                [num |-> <<3, 4, 3>>, den |-> 10], [num |-> <<1, 1>>, den |-> 2]}
\* the vacuum, a mixture of zero and one photon, and the two-photon state, on mode 0
SamplerStates == {[modes |-> {0}, pop |-> <<1, 0, 0>>], [modes |-> {0}, pop |-> <<1, 1, 0>>],
                  [modes |-> {0}, pop |-> <<0, 0, 1>>]}

RECURSIVE SumTo(_, _)
SumTo(q, k) == IF k = 0 THEN 0 ELSE q[k] + SumTo(q, k - 1)
\* sum(q) of a list of numbers
SumOf(q) == SumTo(q, Len(q))

InitSampler ==
    /\ EngineStubsFockIdle
    /\ WiresIdle
    /\ ParamsIdle
    /\ CompsIdle
    /\ BargIdle
    /\ \E ops \in MeasOpLists : \E pr \in {None} \cup StoredDists :
         sampler = [meas_outcomes |-> MeasOutcomes, meas_ops |-> ops, probs |-> pr]
    /\ slast = NoCall

\* state >> meas_op.dual cannot be contracted when the operator acts on a mode the
\* state does not have
Incompatible(st, op) == ~(op.modes \subseteq st.modes)

\* (state >> meas_op.dual).probability: the weight of the operator's photon number
\* in the state
ProbabilityOf(st, op) == st.pop[op.n + 1]

\* the list comprehensions of probs and probs / sum(probs)
ComputedProbs(smp, st) ==
    IF \E i \in 1..Len(smp.meas_ops) : Incompatible(st, smp.meas_ops[i])
    THEN [outcome |-> "ValueError", res |-> None]
    ELSE LET each == [i \in 1..Len(smp.meas_ops) |-> ProbabilityOf(st, smp.meas_ops[i])]
         IN  [outcome |-> "returned", res |-> [num |-> each, den |-> SumOf(each)]]

\* the exceptions `None >> meas_op.dual` can end in: the dual view cannot be built
\* (AttributeError) or None has no >> (TypeError)
NoStateErrors == {"AttributeError", "TypeError"}

\* Sampler.probs(state), exc the exception a missing state ends in
ProbsOf(smp, st, exc) ==
    IF smp.probs = None
    THEN IF st = None THEN [outcome |-> exc, res |-> None] ELSE ComputedProbs(smp, st)
    ELSE [outcome |-> "returned", res |-> smp.probs]

\* rng.choice(a, p=p): the checks it makes on p, then the indices it can return
ChoiceErrors(a, d) ==
    \/ Len(d.num) # Len(a)
    \/ \E i \in 1..Len(d.num) : d.num[i] < 0
    \/ SumOf(d.num) # d.den
ChoiceOf(a, d) == {a[i] : i \in {j \in 1..Len(a) : d.num[j] > 0}}

Probs ==
    /\ \E st \in {None} \cup SamplerStates : \E exc \in NoStateErrors :
         LET r == ProbsOf(sampler, st, exc)
         IN  slast' = [op |-> "probs", state |-> st, outcome |-> r.outcome, res |-> r.res]
    /\ UNCHANGED <<sampler, bargVars, engineVars, stubVars, fockVars, wiresVars, paramVars,
                   compVars>>

\* Sampler.sample(state, n_samples): one probs call and one draw per sample
Sample ==
    /\ \E st \in {None} \cup SamplerStates : \E exc \in NoStateErrors :
       \E n \in 1..MaxSamples :
         LET r == ProbsOf(sampler, st, exc)
         IN  IF r.outcome # "returned"
             THEN slast' = [op |-> "sample", state |-> st, outcome |-> r.outcome, res |-> <<>>]
             ELSE IF ChoiceErrors(sampler.meas_outcomes, r.res)
             THEN slast' = [op |-> "sample", state |-> st, outcome |-> "ValueError",
                            res |-> <<>>]
             ELSE \E drawn \in [1..n -> ChoiceOf(sampler.meas_outcomes, r.res)] :
                    slast' = [op |-> "sample", state |-> st, outcome |-> "returned",
                              res |-> drawn]
    /\ UNCHANGED <<sampler, bargVars, engineVars, stubVars, fockVars, wiresVars, paramVars,
                   compVars>>

NextSampler == Probs \/ Sample

SpecSampler == InitSampler /\ [][NextSampler]_vars

\* ---------------------------------------------------------------- Bargmann
\* A Bargmann object is [A, b, c, poly]: A a batch of dim x dim matrices, b a batch
\* of vectors, c a batch of scalars, and poly given by its shape.
MaxBatch == 2
MaxDim == 2
MaxNegs == 2
Filled(batch, rows, v) == [k \in 1..batch |-> [i \in 1..rows |-> v]]
CoeffValues == {-1, 0, 2}

\* self.poly as __init__ stores it: kept when it has as many axes as A, given one
\* more leading axis of length 1 otherwise
StoredPoly(shp) == IF Len(shp) = 3 THEN shp ELSE <<1>> \o shp

\* Bargmann.__init__: [ok, obj]; the batch sizes of A, b, c and poly must agree
NewBargmann(mat, vec, coeffs, polyShape) ==
    LET poly == StoredPoly(polyShape)
    IN  [ok |-> Len(mat) = Len(vec) /\ Len(vec) = Len(coeffs) /\ Len(coeffs) = poly[1],
         obj |-> [A |-> mat, b |-> vec, c |-> coeffs, poly |-> poly]]

InitBargmann ==
    /\ EngineStubsFockIdle
    /\ WiresIdle
    /\ ParamsIdle
    /\ CompsIdle
    /\ SamplerIdle
    /\ \E batch \in 1..MaxBatch : \E dim \in 1..MaxDim : \E a, v \in {0, 1} :
       \E coeffs \in [1..batch -> CoeffValues] : \E polyShape \in {<<batch, 1, 1>>, <<1>>} :
         LET new == NewBargmann(Filled(batch, dim, Filled(1, dim, a)[1]),
                                Filled(batch, dim, v), coeffs, polyShape)
         IN  new.ok /\ bargs = <<new.obj>>
    /\ blast = NoNeg

\* the entries of a tensor with depth axes, in order
RECURSIVE Flattened(_, _)
Flattened(q, depth) ==
    IF depth = 0 THEN <<q>>
    ELSE IF Len(q) = 0 THEN <<>>
    ELSE Flattened(q[1], depth - 1) \o Flattened(Tail(q), depth)

\* bool(x) of a tensor with the entries e: "ValueError" (ambiguous) when it has more
\* than one element
TruthOf(e) == IF Len(e) > 1 THEN "ValueError" ELSE IF e[1] # 0 THEN "true" ELSE "false"

\* -self.c
Negated(coeffs) == [k \in 1..Len(coeffs) |-> 0 - coeffs[k]]

\* Bargmann._from_self(A, b, c): `A or self.A`, `b or self.b`, `c or self.c` and
\* `poly or self.poly` with poly None, then the constructor
FromSelf(self, mat, vec, coeffs) ==
    LET or(x, depth, y) == IF TruthOf(Flattened(x, depth)) = "true" THEN x ELSE y
    IN  IF \E e \in {Flattened(mat, 3), Flattened(vec, 2), Flattened(coeffs, 1)} :
              TruthOf(e) = "ValueError"
        THEN [outcome |-> "ValueError", obj |-> self]
        ELSE LET new == NewBargmann(or(mat, 3, self.A), or(vec, 2, self.b),
                                    or(coeffs, 1, self.c), self.poly)
             IN  [outcome |-> IF new.ok THEN "returned" ELSE "AssertionError",
                  obj |-> new.obj]

\* Bargmann.__neg__
NegOf(self) == FromSelf(self, self.A, self.b, Negated(self.c))

\* -data for one of the objects that exist
Neg ==
    /\ Len(bargs) <= MaxNegs
    /\ \E i \in 1..Len(bargs) :
         LET r == NegOf(bargs[i])
         IN  IF r.outcome = "returned"
             THEN /\ bargs' = Append(bargs, r.obj)
                  /\ blast' = [of |-> i, res |-> Len(bargs) + 1, outcome |-> "returned"]
             ELSE /\ bargs' = bargs
                  /\ blast' = [of |-> i, res |-> 0, outcome |-> r.outcome]
    /\ UNCHANGED <<samplerVars, engineVars, stubVars, fockVars, wiresVars, paramVars,
                   compVars>>

NextBargmann == Neg

SpecBargmann == InitBargmann /\ [][NextBargmann]_vars

\* ================================================================ claims
AllCutoffs(v) == \A i \in 1..Len(cutoffs) : cutoffs[i] = v
ValidTriple == IsSquare(A) /\ Len(B) = Len(A)
RankOf(G) == Len(CHOOSE n \in DOMAIN G : TRUE)
AxisLen(G, i) == Cardinality({n[i] : n \in DOMAIN G})
Engaged == pc \in {"fill_entry", "filling", "done"}

\* C1: during the forward fill every cell a recursion step reads (G[n - e_k] and each
\* G[n - e_k - e_j] with non-negative indices) has been written before the step writes
\* G[n]; no step ever reads a cell that is not yet filled.
C1_FillOrder ==
    /\ unfilled = {}
    /\ reads \subseteq written \ {cur}
    /\ (pc = "filling" /\ cur # ZeroIndex(Len(cur))) => reads = ReadSet(cur, Pivot(cur))

\* C1 witness: a step has read G[m] together with two cells G[m - e_j]
C1_Witness == pc = "filling" /\ Cardinality(reads) >= 3 /\ entry = "tf"

CutoffOfAxis(i) == cutoffs[((i - 1) % Len(cutoffs)) + 1]
ExpectedRank ==
    IF entry = "tf" /\ Len(B) = 2 * Len(cutoffs) THEN 2 * Len(cutoffs) ELSE Len(cutoffs)

IsVacuum ==
    /\ C = COne
    /\ \A k \in 1..Len(B) : B[k] = CZero
    /\ \A j \in 1..Len(A) : \A k \in 1..Len(A[j]) : A[j][k] = CZero
Lowered(i) == [cutoffs EXCEPT ![i] = @ - 1]

C6_PivotIndependent ==
    (pc \in {"filling", "done"} /\ IsSymmetric(A)) =>
        \A n \in written \ {ZeroIndex(Len(shape))} :
            \A k \in {k \in 1..Len(n) : n[k] > 0} : StepValue(state, A, B, n, k) = state[n]

\* C6 witness: a cell with two axes to choose from, index 2 on one of them, has been
\* written with a non-zero value under a symmetric A with non-zero off-diagonal entries
C6_Witness ==
    /\ pc = "done" /\ IsSymmetric(A) /\ Len(A) = 2 /\ A[1][2] # CZero
    /\ <<2, 1>> \in written /\ state[<<2, 1>>] # CZero

\* C7: a negative cutoff is rejected with an invalid-argument error, and a non-square A
\* or a B whose length differs from A's dimension with a shape-mismatch error, before
\* any cell of the tensor is computed.
C7_RejectedAtEntry ==
    /\ (pc # "start" /\ \E i \in 1..Len(cutoffs) : cutoffs[i] < 0)
         => (pc = "raised" /\ err \in {"ValueError", "InvalidArgument"} /\ written = {})
    /\ (pc # "start" /\ ~ValidTriple /\ Len(cutoffs) >= 1
          /\ \A i \in 1..Len(cutoffs) : cutoffs[i] >= 1)
         => (pc = "raised" /\ err = "ShapeMismatch" /\ written = {})

\* the operations that are not implemented
Unimplemented ==
    {"update_tensor", "Categorical", "MultivariateNormalTriL", "hermite_renormalized_diagonal",
     "hermite_renormalized_1leftoverMode", "boolean_mask", "custom_gradient", "_thermal_X",
     "_thermal_Y", "__truediv__", "__mul__ object"}

\* C8: every operation that is not implemented signals a not-implemented error when it is
\* called; none of them returns a value (such as None) silently.
C8_NotImplementedSignalled ==
    \A i \in 1..Len(log) :
        log[i].op \in Unimplemented => log[i].outcome = "raised NotImplementedError"

\* C9: a Fock tensor is never mutated after it is produced: every operation returns a
\* new tensor and leaves the tensors passed to it unchanged, after any sequence of
\* operations.
C9_NeverMutated ==
    /\ \A i \in 1..Len(heap) : heap[i] = orig[i]
    /\ lastOp.outcome = "returned" => lastOp.res \notin Range(lastOp.args)

\* the modes of keep in increasing order
Ascending(keep) ==
    CHOOSE s \in [1..Cardinality(keep) -> keep] :
        \A p, q \in 1..Cardinality(keep) : p < q => s[p] < s[q]

\* the partial trace of dm over the modes not in keep, entry by entry: the sum of
\* dm[out, in] over the out/in indices that agree on every traced mode, the kept
\* modes' out indices first and their in indices after, in increasing mode order
PartialTraceEntry(dm, keep, idx) ==
    LET N == Len(dm.shape) \div 2
        K == Ascending(keep)
        k == Len(K)
        traced == (0..(N - 1)) \ keep
        ts == {t \in [traced -> 0..(MaxOf(dm.shape) - 1)] :
                 \A m \in traced : t[m] < dm.shape[m + 1]}
        full(t) == [a \in 1..(2 * N) |->
                      IF a <= N
                      THEN IF (a - 1) \in keep THEN idx[IndexOf(K, a - 1)] ELSE t[a - 1]
                      ELSE IF (a - N - 1) \in keep THEN idx[k + IndexOf(K, a - N - 1)]
                           ELSE t[a - N - 1]]
    IN  CSumFn([t \in ts |-> dm.val[full(t)]], ts)

\* C10: trace(dm, keep) on a tensor with axes (out_0..out_{N-1}, in_0..in_{N-1})
\* contracts axis i with axis i+N for exactly the modes i not in keep; the result has
\* rank 2*|keep|, its axes the kept out axes followed by the kept in axes, each group
\* in increasing mode order, and each entry is the sum over the traced modes.
C10_PartialTrace ==
    (lastOp.op = "trace" /\ lastOp.outcome = "returned") =>
        LET dm == heap[lastOp.args[1]]
            R == heap[lastOp.res]
            N == Len(dm.shape) \div 2
            K == Ascending(lastOp.keep)
            k == Len(K)
        IN  /\ Len(R.shape) = 2 * k
            /\ \A p \in 1..k : /\ R.shape[p] = dm.shape[K[p] + 1]
                               /\ R.shape[k + p] = dm.shape[N + K[p] + 1]
            /\ DOMAIN R.val = Cells(R.shape)
            /\ \A idx \in Cells(R.shape) :
                 R.val[idx] = PartialTraceEntry(dm, lastOp.keep, idx)
            /\ R.den = dm.den /\ R.rad = dm.rad

\* C10 witness: a two-mode density matrix with modes of different sizes traced over its
\* first mode, the 3 x 3 result not identically zero
C10_Witness ==
    /\ lastOp.op = "trace" /\ lastOp.outcome = "returned"
    /\ lastOp.keep = {1}
    /\ heap[lastOp.args[1]].shape = <<2, 3, 2, 3>>
    /\ heap[lastOp.res].shape = <<3, 3>>
    /\ \E idx \in Cells(<<3, 3>>) : heap[lastOp.res].val[idx] # CZero

\* the tensor the engine returns for the same A, B and cutoffs with C = 1: G is linear
\* in C, so this is the tensor of the derivatives of G[n] with respect to C
UnitResult == EngineResult("tf", A, B, COne, cutoffs)

\* C11: for C # 0 the gradient grad returns for C, given the upstream gradient dy, is
\* the sum over all multi-indices n of dy[n] * conj(G[n] / C): G[n] / C is the
\* derivative of G[n] with respect to C (the number q with q * C = G[n]).
C11_GradientOfC ==
    (pc = "graded" /\ C # CZero) =>
        /\ \A n \in DOMAIN ret : CMul(UnitResult[n], C) = ret[n]
        /\ dLdC.den # 0
        /\ dLdC.num = CScale(dLdC.den,
                             CSumFn([n \in DOMAIN ret |-> CMul(dy[n], CConj(UnitResult[n]))],
                                    DOMAIN ret))

\* C11 witness: a gradient taken for a complex C over a tensor with several non-zero
\* cells, the upstream gradient complex and the result non-zero
C11_Witness ==
    /\ pc = "graded" /\ C = <<2, 0 - 1>>
    /\ Cardinality({n \in DOMAIN ret : ret[n] # CZero}) >= 3
    /\ \E n \in DOMAIN dy : dy[n][2] # 0 /\ ret[n] # CZero
    /\ dLdC.num[1] # 0 /\ dLdC.num[2] # 0

\* the objects made by the constructor called with mode groups
Constructed == {i \in 1..Len(ws) : ws[i].by.op = "init"}

\* the ids w holds for the wires of group c, in the order of the modes list of w
GroupIds(w, c, group) ==
    LET ms == SelectSeq(Modes(w), LAMBDA m : m \in Range(group))
    IN  [i \in 1..Len(ms) |-> w.ida[IndexOf(w.modes, ms[i])][c]]

IsAscending(q) == \A i, j \in 1..Len(q) : i < j => q[i] < q[j]

\* C12: for a Wires object built from four mode groups, ids holds exactly one id per
\* wire (|out_bra| + |in_bra| + |out_ket| + |in_ket| in total), in the standard
\* order: all output-bra ids, then input-bra, output-ket and input-ket ids, within a
\* group in the order of the modes list.
C12_IdsStandardOrder ==
    \A i \in Constructed :
        LET w == ws[i]
            g == w.by.groups
        IN  /\ Len(Ids(w)) = Len(g[1]) + Len(g[2]) + Len(g[3]) + Len(g[4])
            /\ \A c \in Cols : /\ Len(GroupIds(w, c, g[c])) = Len(g[c])
                               /\ \A k \in 1..Len(g[c]) : GroupIds(w, c, g[c])[k] > 0
            /\ Ids(w) = GroupIds(w, 1, g[1]) \o GroupIds(w, 2, g[2])
                          \o GroupIds(w, 3, g[3]) \o GroupIds(w, 4, g[4])

\* C12 witness: an object on two modes with wires in all four groups, one group given
\* out of order, whose ids are all different
C12_Witness ==
    \E i \in Constructed :
        /\ ws[i].by.groups[1] = <<8, 1>>
        /\ \A c \in Cols : ws[i].by.groups[c] # <<>>
        /\ Len(Ids(ws[i])) >= 6
        /\ Cardinality(Range(Ids(ws[i]))) = Len(Ids(ws[i]))

\* the ids of all the wires of an object, masked or not
AllIds(w) == {w.ida[r][c] : r \in 1..Len(w.ida), c \in Cols} \ {0}

\* the number of wires of an object, masked or not
NWires(w) == Cardinality({rc \in (1..Len(w.ida)) \X Cols : w.ida[rc[1]][rc[2]] # 0})

\* C13: every wire is assigned a unique id: the ids of one Wires object are pairwise
\* distinct, and the ids of objects created by different constructor calls (those of
\* copy() included) are distinct from each other.
C13_UniqueIds ==
    LET built == {i \in 1..Len(ws) : ws[i].by.op \in {"init", "copy"}}
    IN  /\ \A i \in built : Cardinality(AllIds(ws[i])) = NWires(ws[i])
        /\ \A i, j \in built : i # j => AllIds(ws[i]) \cap AllIds(ws[j]) = {}

\* C14: the modes are sorted at init time: for any four mode groups given in any order,
\* modes is in ascending order and the rows of the id array follow that order.
C14_ModesSorted ==
    \A i \in Constructed : IsAscending(Modes(ws[i])) /\ IsAscending(ws[i].modes)

\* the ids the object w assigns to its available wires outside the columns cols and
\* the rows rows, in the standard order
SelectedIds(w, rows, cols) ==
    LET n == Len(w.ida)
        row(i) == ((i - 1) % n) + 1
        col(i) == ((i - 1) \div n) + 1
        kept == SelectSeq([i \in 1..(4 * n) |-> i],
                          LAMBDA i : /\ IdArray(w)[row(i)][col(i)] > 0
                                     /\ row(i) \notin rows
                                     /\ col(i) \notin cols)
    IN  [k \in 1..Len(kept) |-> IdArray(w)[row(kept[k])][col(kept[k])]]

ViewOps == {"input", "output", "ket", "bra", "getitem"}

\* C15: a subset view of a Wires object (input, output, ket, bra, w[modes], and any
\* chain of them) is a new Wires object whose ids are exactly the ids the object it is
\* taken of assigns to the wires of the selected groups and modes, and taking the view
\* leaves the ids, modes and mask of every existing object unchanged.
C15_ViewsShareIds ==
    wlast.op \in ViewOps =>
        /\ wlast.outcome = "returned"
        /\ wlast.res = Len(wlast.pre) + 1
        /\ LET v == ws[wlast.res]
               w == wlast.pre[wlast.args[1]]
           IN  Ids(v) = SelectedIds(w, v.by.rows, v.by.cols)
        /\ \A i \in 1..Len(wlast.pre) : ws[i] = wlast.pre[i]

\* the positions (mode, column) at which w has an available wire
WireAt(w) ==
    {<<w.modes[rc[1]], rc[2]>> :
        rc \in {x \in (1..Len(w.ida)) \X Cols : IdArray(w)[x[1]][x[2]] > 0}}

\* C18: for an object w built by the constructor, w.adjoint has a bra wire exactly
\* where w has a ket wire and vice versa, w.dual has an input wire exactly where w has
\* an output wire and vice versa, and the object returned has new ids: none of its ids
\* is an id of w.
C18_AdjointDualNewIds ==
    (/\ wlast.op \in {"adjoint", "dual"}
     /\ wlast.outcome = "returned"
     /\ wlast.args[1] \in Constructed) =>
        LET w == ws[wlast.args[1]]
            v == ws[wlast.res]
            swap == IF wlast.op = "adjoint" THEN <<3, 4, 1, 2>> ELSE <<2, 1, 4, 3>>
        IN  /\ WireAt(v) = {<<mc[1], swap[mc[2]]>> : mc \in WireAt(w)}
            /\ Range(Ids(v)) \cap Range(Ids(w)) = {}

\* the id w holds at the position (mode, column)
IdAt(w, mc) == IdArray(w)[IndexOf(w.modes, mc[1])][mc[2]]

\* the positions of the output wires of a at a (mode, side) where b has an input wire
MatchedOut(a, b) == {mc \in WireAt(a) : mc[2] \in {1, 3} /\ <<mc[1], mc[2] + 1>> \in WireAt(b)}

\* the positions of the input wires of b that such an output wire of a is joined to
MatchedIn(a, b) == {<<mc[1], mc[2] + 1>> : mc \in MatchedOut(a, b)}

SurvivingOfFirst(a, b) == WireAt(a) \ MatchedOut(a, b)
SurvivingOfSecond(a, b) == WireAt(b) \ MatchedIn(a, b)

\* the ids of the surviving wires in the standard order: group after group, within a
\* group by increasing mode
SurvivingIds(a, b) ==
    LET all == SurvivingOfFirst(a, b) \cup SurvivingOfSecond(a, b)
        ms == SortedList(ModeUniverse)
        n == Len(ms)
        at(i) == <<ms[((i - 1) % n) + 1], ((i - 1) \div n) + 1>>
        q == SelectSeq([i \in 1..(4 * n) |-> at(i)], LAMBDA mc : mc \in all)
    IN  [i \in 1..Len(q) |-> IF q[i] \in SurvivingOfFirst(a, b) THEN IdAt(a, q[i])
                             ELSE IdAt(b, q[i])]

\* C16: a >> b contains exactly the surviving wires: every wire of a except its output
\* wires at a (mode, side) where b has an input wire, and every wire of b except those
\* matched input wires, each keeping its id, in the standard order; ValueError is
\* raised if and only if two surviving wires would occupy the same mode, side and
\* direction.
C16_RshiftSurvivors ==
    wlast.op = "rshift" =>
        LET a == wlast.pre[1]
            b == wlast.pre[2]
            clash == SurvivingOfFirst(a, b) \cap SurvivingOfSecond(a, b) # {}
        IN  /\ (wlast.outcome = "ValueError: wire overlap") <=> clash
            /\ (wlast.outcome = "returned") <=> ~clash
            /\ ~clash =>
                 /\ WireAt(ws[wlast.res]) = SurvivingOfFirst(a, b) \cup SurvivingOfSecond(a, b)
                 /\ Ids(ws[wlast.res]) = SurvivingIds(a, b)
                 /\ IsAscending(ws[wlast.res].modes)
            /\ ws[1] = a /\ ws[2] = b

\* C16 witness: two objects on both modes joined at an output of the first, with wires
\* of both surviving and a wire of the first hidden by its view
C16_Witness ==
    /\ wlast.op = "rshift" /\ wlast.outcome = "returned"
    /\ MatchedOut(ws[1], ws[2]) # {}
    /\ SurvivingOfFirst(ws[1], ws[2]) # {}
    /\ SurvivingOfSecond(ws[1], ws[2]) # {}
    /\ Len(Modes(ws[3])) = 2
    /\ \E r \in 1..Len(ws[1].mask) : \E c \in Cols : ws[1].mask[r][c] < 0 /\ ws[1].ida[r][c] > 0

\* C17: a + b raises ValueError whenever a and b both have a wire on the same mode in
\* the same group; otherwise it returns a new Wires object holding exactly the wires
\* of both operands with their ids.
C17_AddOverlap ==
    wlast.op = "add" =>
        LET a == wlast.pre[1]
            b == wlast.pre[2]
            overlap == WireAt(a) \cap WireAt(b) # {}
        IN  IF overlap THEN wlast.outcome # "returned"
            ELSE /\ wlast.outcome = "returned"
                 /\ WireAt(ws[wlast.res]) = WireAt(a) \cup WireAt(b)
                 /\ \A mc \in WireAt(a) : IdAt(ws[wlast.res], mc) = IdAt(a, mc)
                 /\ \A mc \in WireAt(b) : IdAt(ws[wlast.res], mc) = IdAt(b, mc)

SidesOf(comp) ==
    LET g == comp.wires.by.groups
        bra == g[1] # <<>> \/ g[2] # <<>>
        ket == g[3] # <<>> \/ g[4] # <<>>
    IN  IF bra /\ ket THEN "both" ELSE IF ket THEN "ket" ELSE IF bra THEN "bra" ELSE "none"

\* C20: a >> b adds exactly the missing adjoints: if a has wires on one side only and
\* b on both the result is a @ a.adjoint @ b; if a has both and b one side only it is
\* a @ b @ b.adjoint; if both have both sides, or both are on the same single side, it
\* is a @ b; and ValueError is raised when one is ket-only and the other bra-only, or
\* when a has no wires.
C20_RshiftAddsAdjoints ==
    clast.outcome # "none" =>
        LET sa == SidesOf(comps[clast.a])
            sb == SidesOf(comps[clast.b])
            single == {"ket", "bra"}
        IN  /\ (sa \in single /\ sb = "both") => clast.res = SelfAdjointOther
            /\ (sa = "both" /\ sb \in single) => clast.res = SelfOtherAdjoint
            /\ ((sa = "both" /\ sb = "both") \/ (sa \in single /\ sb = sa))
                   => clast.res = SelfOther
            /\ ((sa \in single /\ sb \in single /\ sa # sb) \/ sa = "none")
                   => clast.outcome = "ValueError"

\* two distributions with the same probabilities
SameDist(p, q) ==
    /\ Len(p.num) = Len(q.num)
    /\ \A i \in 1..Len(p.num) : p.num[i] * q.den = q.num[i] * p.den

Compatible(smp, st) == \A i \in 1..Len(smp.meas_ops) : ~Incompatible(st, smp.meas_ops[i])

\* C21: Sampler.probabilities without a state returns the distribution given at
\* construction (None when none was given); with a state it returns the probability
\* of each measurement outcome computed from that state; and it raises ValueError when
\* the measurement operators act on modes the state does not have.
C21_Probabilities ==
    slast.op = "probs" =>
        IF slast.state = None
        THEN slast.outcome = "returned" /\ slast.res = sampler.probs
        ELSE IF Compatible(sampler, slast.state)
        THEN /\ slast.outcome = "returned"
             /\ SameDist(slast.res, ComputedProbs(sampler, slast.state).res)
        ELSE slast.outcome = "ValueError"

\* C22: sample() without a state draws from the distribution stored at construction,
\* and sample(state) draws from the distribution computed from the state even when a
\* stored distribution exists; every outcome returned is one of the measurement
\* outcomes and has non-zero probability in the distribution used.
C22_Sample ==
    (slast.op = "sample" /\ slast.outcome = "returned") =>
        LET used == IF slast.state = None THEN sampler.probs
                    ELSE ComputedProbs(sampler, slast.state).res
        IN  /\ slast.state # None => Compatible(sampler, slast.state)
            /\ \A k \in 1..Len(slast.res) :
                  \E i \in 1..Len(sampler.meas_outcomes) :
                     /\ slast.res[k] = sampler.meas_outcomes[i]
                     /\ used.num[i] > 0

\* C23: negating a matrix-vector data object returns a new object whose coeffs are the
\* negated coeffs of the original and whose mat and vec are equal to the original's,
\* and the original's mat, vec and coeffs are unchanged by the operation.
C23_NegationNewObject ==
    [][\A i \in 1..Len(bargs) :
         blast' = [of |-> i, res |-> blast'.res, outcome |-> blast'.outcome] =>
            /\ blast'.outcome = "returned"
            /\ blast'.res \in (1..Len(bargs')) \ (1..Len(bargs))
            /\ bargs'[blast'.res].c = Negated(bargs[i].c)
            /\ bargs'[blast'.res].A = bargs[i].A
            /\ bargs'[blast'.res].b = bargs[i].b
            /\ bargs'[i] = bargs[i]]_bargVars

====
